---- MODULE Spec2Model ----
(***************************************************************************)
(* TaskChain: the chain execution engine.                                  *)
(*                                                                         *)
(* Several processes, each with one chain built from a config, share one   *)
(* artifact root.  A chain holds the task instances A -> B -> C; a         *)
(* request for the value of a task returns the value held in memory,      *)
(* loads the persisted artifact, or calls the run-method and persists its  *)
(* result.  force marks tasks for recomputation.                           *)
(***************************************************************************)
EXTENDS Integers, Sequences, FiniteSets, TLC

\* ------------------------------------------------------------------ bounds
MaxOps == 2          \* requests (value, force, new chain) issued in all
MaxNames == 1        \* length of the list of names given to Chain.force

\* --------------------------------------------------------- the chain shape
Procs == {"p1", "p2"}
Tasks == {"A", "B", "C"}
XValues == {5, 7}    \* values the configs give to parameter x of task A
Flags == {0, 1}      \* values the configs give to verbose and to y

\* default of a parameter that has to be given in the config
NoDefault == "NO_DEFAULT"

\* Parameter(name, default, ignore_persistence, dont_persist_default_value)
Parameter(name, default, ignore, dont) ==
    [name |-> name, default |-> default, ignore_persistence |-> ignore,
     dont_persist_default_value |-> dont]

\* Meta.parameters of each task class, in declared order.
Declared(t) ==
    CASE t = "A" -> <<Parameter("x", NoDefault, FALSE, FALSE),
                      Parameter("verbose", 0, TRUE, FALSE)>>
      [] t = "B" -> <<Parameter("y", 0, FALSE, TRUE)>>
      [] t = "C" -> <<>>

\* a config: the parameter values it gives, its name and its namespace;
\* the config named "other" is the one used under namespace "ns"
Configs ==
    {c \in [x : XValues, verbose : Flags, y : Flags,
            namespace : {"", "ns"}, name : {"config", "other"}] :
        (c.namespace = "ns") = (c.name = "other")}

BaseConfig ==
    [x |-> 5, verbose |-> 0, y |-> 0, namespace |-> "", name |-> "config"]

NoProc == "none"
NoValue == [content |-> 0, oid |-> 0]

\* Meta.input_tasks of each task class, in declared order.
InputTasks(t) ==
    CASE t = "A" -> <<>>
      [] t = "B" -> <<"A">>
      [] t = "C" -> <<"B">>

Range(s) == {s[i] : i \in 1..Len(s)}

\* variant: ignore_persistence is not looked at
PersistedWithIgnored(d, cfg) ==
    ~(d.dont_persist_default_value /\ cfg[d.name] = d.default)

\* variant: dont_persist_default_value is not looked at
PersistedWithDefaults(d, cfg) == ~d.ignore_persistence

\* the parameter is used in persistence
Persisted(d, cfg) ==
    /\ ~d.ignore_persistence
    /\ ~(d.dont_persist_default_value /\ cfg[d.name] = d.default)

\* variant: no parameter value goes into the hash
ParametersOfNone(decl, cfg) == <<>>

\* the parameters declared by decl that go into the hash, with the values
\* the config gives them
ParametersOf(decl, cfg) ==
    LET used == SelectSeq(decl, LAMBDA d : Persisted(d, cfg))
    IN [i \in 1..Len(used) |-> <<used[i].name, cfg[used[i].name]>>]

\* the parameter values of task t that its hash is computed from
Parameters(t, cfg) == ParametersOf(Declared(t), cfg)

\* hash of the task: all parameter values and the hashes of all input tasks.
RECURSIVE Fingerprint(_, _)
Fingerprint(t, cfg) ==
    <<t, Parameters(t, cfg),
      [i \in 1..Len(InputTasks(t)) |-> Fingerprint(InputTasks(t)[i], cfg)]>>

Fingerprints == {Fingerprint(t, cfg) : t \in Tasks, cfg \in Configs}

\* /path/to/tasks_data/group_name/task_name/{hash}.{extension}
DataPath(t, cfg) == <<"tasks_data", t, Fingerprint(t, cfg)>>

\* tasks that depend, directly or not, on task t
RECURSIVE DependsOn(_, _)
DependsOn(d, t) ==
    \E i \in Range(InputTasks(d)) : i = t \/ DependsOn(i, t)

DependentTasks(t) == {d \in Tasks : DependsOn(d, t)}

\* ------------------------------------------------------ chain construction

ConfigNames == {"root", "foo"}

\* namespaces a used config can be put in ("": used without `as`)
Namespaces == {"", "train", "test"}

\* the group of a task class ("": none)
Group(c) == IF c = "B" THEN "group" ELSE ""

\* a reference to a task: 'name', 'group:name', 'namespace::name' or
\* 'namespace::group:name'
Ref(ns, group, name) == [namespace |-> ns, group |-> group, name |-> name]

Bare(name) == Ref("", "", name)

IsBare(r) == r.namespace = "" /\ r.group = ""

\* the configs of a chain: the root config, and config foo once for every
\* `uses` entry of the root config, in the namespace of that entry
ConfigNodes(d) ==
    {[config |-> "root", namespace |-> ""]}
        \cup {[config |-> "foo", namespace |-> ns] : ns \in d.uses}

\* variant: abstract task classes are selected like any other
SelectedWithAbstract(d, node) ==
    d.tasks[node.config] \ d.excluded_tasks[node.config]

\* the task classes the `tasks` entries of a config select: not the
\* abstract ones, and not the ones its `excluded_tasks` entries name
Selected(d, node) ==
    {c \in d.tasks[node.config] : c \notin d.abstract}
        \ d.excluded_tasks[node.config]

\* a task class paired with the config that declares it
TaskInstance(c, node) ==
    [name |-> c, group |-> Group(c), config |-> node.config,
     namespace |-> node.namespace]

\* one task instance for every selected task class of every config
Instances(d) ==
    UNION {{TaskInstance(c, node) : c \in Selected(d, node)} :
              node \in ConfigNodes(d)}

\* namespace::group:name, a missing component taking its separator along
Join(ns, group, name) ==
    (IF ns = "" THEN "" ELSE ns \o "::")
        \o (IF group = "" THEN "" ELSE group \o ":") \o name

FullName(i) == Join(i.namespace, i.group, i.name)

RefName(r) == Join(r.namespace, r.group, r.name)

\* two configs of the chain declare a task of the same full name
Conflict(insts) ==
    \E i, j \in insts : i # j /\ FullName(i) = FullName(j)

\* variant: a bare name matches the first task instance of that name
MatchingFirst(insts, r) ==
    LET m == IF IsBare(r)
             THEN {i \in insts : i.name = r.name}
             ELSE {i \in insts : FullName(i) = RefName(r)}
    IN IF m = {} THEN {} ELSE {CHOOSE i \in m : TRUE}

\* the task instances a reference matches: by name when it is a bare
\* name, by the exact full name otherwise
Matching(insts, r) ==
    IF IsBare(r)
    THEN {i \in insts : i.name = r.name}
    ELSE {i \in insts : FullName(i) = RefName(r)}

\* variant: an input task is searched by bare name in the other namespaces
ScopeOthers(insts, i) ==
    IF i.namespace = "" THEN insts
    ELSE {j \in insts : j.namespace # i.namespace}

\* the task instances among which an input task of i is searched by bare
\* name: those of the namespace of i
Scope(insts, i) ==
    IF i.namespace = "" THEN insts
    ELSE {j \in insts : j.namespace = i.namespace}

\* the task instances input-task reference r of task i matches
InputMatching(insts, i, r) ==
    IF IsBare(r) THEN Matching(Scope(insts, i), r) ELSE Matching(insts, r)

\* every input-task reference matches exactly one task instance
AllResolved(d, insts) ==
    \A i \in insts : \A r \in d.input_tasks[i.name] :
        Cardinality(InputMatching(insts, i, r)) = 1

\* the full names of the input tasks of i
Linked(d, insts, i) ==
    {FullName(j) : j \in UNION {InputMatching(insts, i, r) :
                                   r \in d.input_tasks[i.name]}}

RECURSIVE Sorted(_, _)

\* variant: no topological order is looked for
SortedAlways(remaining, edges) == TRUE

\* a topological order of the tasks exists: tasks with no input task left
\* are taken out until none is left
Sorted(remaining, edges) ==
    LET ready == {n \in remaining : edges[n] \cap remaining = {}}
    IN IF remaining = {} THEN TRUE
       ELSE IF ready = {} THEN FALSE
       ELSE Sorted(remaining \ ready, edges)

\* chain construction failed: no chain
Failed(e) == [error |-> e, tasks |-> <<>>, input_tasks |-> <<>>]

NoChain == Failed("not_created")

\* config.chain(): task instances by full name and their input tasks, or
\* the error of the construction
Create(d) ==
    LET insts == Instances(d)
        names == {FullName(i) : i \in insts}
        tasks == [n \in names |-> CHOOSE i \in insts : FullName(i) = n]
        edges == [n \in names |-> Linked(d, insts, tasks[n])]
    IN IF Conflict(insts) THEN Failed("conflict")
       ELSE IF ~AllResolved(d, insts) THEN Failed("reference")
       ELSE IF ~Sorted(names, edges) THEN Failed("cycle")
       ELSE [error |-> "none", tasks |-> tasks, input_tasks |-> edges]

\* the declarations of the pipeline A -> B -> C in one config
BaseDecl ==
    [input_tasks |-> [t \in Tasks |->
                        IF t = "B" THEN {Bare("A")}
                        ELSE IF t = "C" THEN {Bare("B")} ELSE {}],
     abstract |-> {},
     tasks |-> [c \in ConfigNames |-> IF c = "root" THEN Tasks ELSE {}],
     excluded_tasks |-> [c \in ConfigNames |-> {}],
     uses |-> {}]

\* references declared as input tasks
Refs ==
    {Bare("A"), Bare("B"), Ref("train", "", "A"), Ref("test", "", "A"),
     Ref("", "group", "B"), Ref("train", "group", "B")}

\* Declarations of task classes A and B, each with at most one input
\* task, and of the configs root and foo.
Decls ==
    {d \in [input_tasks : [Tasks -> {{}} \cup {{r} : r \in Refs}],
            abstract : {{}, {"A"}},
            tasks : [ConfigNames -> SUBSET {"A", "B"}],
            excluded_tasks : [ConfigNames -> {{}, {"B"}}],
            uses : SUBSET Namespaces] :
        /\ d.input_tasks["C"] = {}
        /\ d.excluded_tasks["foo"] = {}}

NoFound == [ref |-> Bare("-"), task |-> "-"]

VARIABLES
    decl,     \* the declared task classes and configs
    chain,    \* the chain created from them: its tasks, or the error
    found,    \* what the last lookup in the chain gave
    x,        \* x[p]: the config the chain of p is created from
    data,     \* data[p][t]: value of t held in memory by the chain of p
    made,     \* made[p][t]: value objects the task instance has created
    forced,   \* forced[p][t]: the forced mark of the task instance
    stack,    \* stack[p]: the nested value requests of p, innermost last
    todo,     \* todo[p]: tasks Chain.force(recompute=True) still evaluates
    lock,     \* lock[f]: the process holding the file lock of artifact f
    disk,     \* disk[f]: the persisted artifact: the run that wrote it (0: none)
              \*          (-n: unfinished data written by run n)
    info,     \* info[f]: the run recorded in the run-info sidecar (0: none)
    recorded, \* recorded[f]: the input fingerprints recorded in that run info
    runs,     \* runs[f]: run-method invocations for fingerprint f so far
    ops,      \* ops[p]: requests issued by p
    anyForce, \* a force was requested
    cur,      \* cur[p]: the request p issued last
    runLog,   \* runLog[p]: tasks whose run-method p invoked in this request
    ret       \* ret[p]: what the value request of p returned

\* the state of the execution engine
engine == <<x, data, made, forced, stack, todo, lock, disk, info, recorded,
            runs, ops, anyForce, cur, runLog, ret>>

\* the chain as created
built == <<decl, chain, found>>

vars == <<built, engine>>

FP(p, t) == Fingerprint(t, x[p])

\* a request: its kind and arguments, and the tasks it marked as forced
NoOp == [kind |-> "none", task |-> "-", names |-> {}, delete |-> FALSE,
         recompute |-> FALSE, marked |-> {}]

NoPrev == [NoOp EXCEPT !.kind = "no_prev"]

ForceKinds == {"task_force", "chain_force"}

Idle(p) == stack[p] = <<>> /\ todo[p] = {}

Top(p) == stack[p][Len(stack[p])]

Pop(p) == SubSeq(stack[p], 1, Len(stack[p]) - 1)

\* a task entered by a value request: where it is, and which run it is in
Frame(t, pc, n) == [task |-> t, pc |-> pc, started |-> n]

SetTop(p, pc, n) == Append(Pop(p), Frame(Top(p).task, pc, n))

\* variant: the handler never reports an artifact
ExistsNever(f) == FALSE

\* variant: unfinished data count as the artifact
ExistsUnfinished(f) == disk[f] # 0

\* the handler reports that the artifact exists and is finished; a
\* negative disk[f] stands for unfinished data of run -disk[f]
Exists(f) == disk[f] > 0

\* variant: no value is ever found in memory
HasValueNever(p, t) == FALSE

HasValue(p, t) == data[p][t] # NoValue

Sum(f) == f["p1"] + f["p2"]

\* The chains are created from the configs xs over one artifact root, in
\* which the tasks of the base config have been computed n times.
\* variant: the run info records no input task
InputFingerprintsNone(t, cfg) == <<>>

\* the fingerprints of the input tasks of t, as the run info records them
InputFingerprints(t, cfg) ==
    [i \in 1..Len(InputTasks(t)) |-> Fingerprint(InputTasks(t)[i], cfg)]

Engine(xs, n) ==
    /\ x = xs
    /\ data = [p \in Procs |-> [t \in Tasks |-> NoValue]]
    /\ made = [p \in Procs |-> [t \in Tasks |-> 0]]
    /\ forced = [p \in Procs |-> [t \in Tasks |-> FALSE]]
    /\ stack = [p \in Procs |-> <<>>]
    /\ todo = [p \in Procs |-> {}]
    /\ lock = [f \in Fingerprints |-> NoProc]
    /\ runs = [f \in Fingerprints |->
                 IF \E t \in Tasks : f = Fingerprint(t, BaseConfig)
                 THEN n ELSE 0]
    /\ disk = runs
    /\ info = runs
    /\ recorded = [f \in Fingerprints |->
                     IF n # 0 /\ \E t \in Tasks : f = Fingerprint(t, BaseConfig)
                     THEN InputFingerprints(
                              CHOOSE t \in Tasks : f = Fingerprint(t, BaseConfig),
                              BaseConfig)
                     ELSE <<>>]
    /\ ops = [p \in Procs |-> 0]
    /\ anyForce = FALSE
    /\ cur = [p \in Procs |-> [op |-> NoOp, after |-> NoPrev]]
    /\ runLog = [p \in Procs |-> <<>>]
    /\ ret = [p \in Procs |-> NoValue]

\* the chains of the pipeline A -> B -> C, created from the configs xs
Start(xs, n) ==
    /\ Engine(xs, n)
    /\ decl = BaseDecl
    /\ chain = Create(BaseDecl)
    /\ found = NoFound

\* The chains are built from the same config over one artifact root, which
\* is empty or holds the artifacts an earlier session computed.
Init == \E n \in {0, 1} : Start([p \in Procs |-> BaseConfig], n)

\* a new request of p starts; a value request remembers the one before it
Begin(p, op) ==
    /\ Idle(p)
    /\ Sum(ops) < MaxOps
    /\ ops' = [ops EXCEPT ![p] = @ + 1]
    /\ anyForce' = (anyForce \/ op.kind \in ForceKinds)
    /\ cur' = [cur EXCEPT ![p] =
                  [op |-> op,
                   after |-> IF op.kind = "value"
                             THEN cur[p].op ELSE NoPrev]]

\* variant: no input value is requested before the run-method is called
NextInputNone(t, dat) == "-"

\* the first input task, in declared order, whose value is not in memory
NextInput(t, dat) ==
    LET ins == InputTasks(t)
        missing == {i \in 1..Len(ins) : dat[ins[i]] = NoValue}
    IN IF missing = {} THEN "-"
       ELSE ins[CHOOSE i \in missing : \A j \in missing : i <= j]

\* the task on top of stk calls its run-method: no input value is missing
CallsRun(stk, dat) ==
    stk # <<>> /\ NextInput(stk[Len(stk)].task, dat) = "-"

\* The task on top of stk builds its run arguments: it requests the value
\* of its next input task, or, with all of them in memory, calls the
\* run-method.
Proceed(p, stk, dat) ==
    IF stk = <<>> THEN <<>>
    ELSE LET t == stk[Len(stk)].task
             rest == SubSeq(stk, 1, Len(stk) - 1)
         IN IF NextInput(t, dat) = "-"
            THEN Append(rest, Frame(t, "running", runs[FP(p, t)] + 1))
            ELSE Append(Append(rest, Frame(t, "inputs", 0)),
                        Frame(NextInput(t, dat), "lock", 0))

\* the run-method invocations Proceed adds
Called(p, stk, dat) ==
    /\ runs' = IF CallsRun(stk, dat)
               THEN [runs EXCEPT ![FP(p, stk[Len(stk)].task)] = @ + 1]
               ELSE runs
    /\ runLog' = IF CallsRun(stk, dat)
                 THEN [runLog EXCEPT ![p] = Append(@, stk[Len(stk)].task)]
                 ELSE runLog

\* variant: task.value enters the task whether or not its value is in memory
ValueNoMemory(p, t) ==
    /\ Begin(p, [NoOp EXCEPT !.kind = "value", !.task = t])
    /\ runLog' = [runLog EXCEPT ![p] = <<>>]
    /\ stack' = [stack EXCEPT ![p] = <<Frame(t, "lock", 0)>>]
    /\ ret' = [ret EXCEPT ![p] = NoValue]
    /\ UNCHANGED <<built, recorded, x, data, made, forced, todo, lock, disk, info, runs>>

\* task.value: the value in memory is returned, otherwise the task is
\* entered and waits for the lock of its artifact
Value(p, t) ==
    /\ Begin(p, [NoOp EXCEPT !.kind = "value", !.task = t])
    /\ runLog' = [runLog EXCEPT ![p] = <<>>]
    /\ IF HasValue(p, t)
       THEN /\ ret' = [ret EXCEPT ![p] = data[p][t]]
            /\ UNCHANGED stack
       ELSE /\ stack' = [stack EXCEPT ![p] = <<Frame(t, "lock", 0)>>]
            /\ ret' = [ret EXCEPT ![p] = NoValue]
    /\ UNCHANGED <<built, recorded, x, data, made, forced, todo, lock, disk, info, runs>>

\* variant: the lock is taken whether or not a process holds it
AcquireHeldLock(p) ==
    /\ stack[p] # <<>>
    /\ Top(p).pc = "lock"
    /\ lock' = [lock EXCEPT ![FP(p, Top(p).task)] = p]
    /\ stack' = [stack EXCEPT ![p] = SetTop(p, "check", 0)]
    /\ UNCHANGED <<built, recorded, x, data, made, forced, todo, disk, info, runs, ops,
                   anyForce, cur, runLog, ret>>

\* the file lock of the artifact path is taken when no process holds it
Acquire(p) ==
    /\ stack[p] # <<>>
    /\ Top(p).pc = "lock"
    /\ lock[FP(p, Top(p).task)] = NoProc
    /\ lock' = [lock EXCEPT ![FP(p, Top(p).task)] = p]
    /\ stack' = [stack EXCEPT ![p] = SetTop(p, "check", 0)]
    /\ UNCHANGED <<built, recorded, x, data, made, forced, todo, disk, info, runs, ops,
                   anyForce, cur, runLog, ret>>

\* variant: the lock is kept when the task returns
ReturnKeepsLock(p, t, v) ==
    /\ data' = [data EXCEPT ![p][t] = v]
    /\ made' = [made EXCEPT ![p][t] = @ + 1]
    /\ lock' = lock
    /\ ret' = IF Len(stack[p]) = 1 /\ cur[p].op.kind = "value"
              THEN [ret EXCEPT ![p] = v] ELSE ret
    /\ stack' = [stack EXCEPT ![p] = Proceed(p, Pop(p), data'[p])]
    /\ Called(p, Pop(p), data'[p])

\* The task on top returns value v, now in memory: the value request that
\* entered it is answered and the task that needs it goes on.
Return(p, t, v) ==
    /\ data' = [data EXCEPT ![p][t] = v]
    /\ made' = [made EXCEPT ![p][t] = @ + 1]
    /\ lock' = [lock EXCEPT ![FP(p, t)] = NoProc]
    /\ ret' = IF Len(stack[p]) = 1 /\ cur[p].op.kind = "value"
              THEN [ret EXCEPT ![p] = v] ELSE ret
    /\ stack' = [stack EXCEPT ![p] = Proceed(p, Pop(p), data'[p])]
    /\ Called(p, Pop(p), data'[p])

\* variant: the artifact is never loaded, the task is always computed
CheckLoadAlwaysRuns(p) ==
    /\ stack[p] # <<>>
    /\ Top(p).pc = "check"
    /\ stack' = [stack EXCEPT ![p] = Proceed(p, stack[p], data[p])]
    /\ Called(p, stack[p], data[p])
    /\ UNCHANGED <<data, made, lock, ret>>
    /\ UNCHANGED <<built, recorded, x, forced, todo, disk, info, ops, anyForce, cur>>

\* under the lock: not forced and the artifact exists -> load it, keep it
\* in memory, release the lock and return; otherwise compute it
CheckLoad(p) ==
    /\ stack[p] # <<>>
    /\ Top(p).pc = "check"
    /\ LET t == Top(p).task
           f == FP(p, t)
       IN IF ~forced[p][t] /\ Exists(f)
          THEN Return(p, t, [content |-> disk[f], oid |-> made[p][t] + 1])
          ELSE /\ stack' = [stack EXCEPT ![p] = Proceed(p, stack[p], data[p])]
               /\ Called(p, stack[p], data[p])
               /\ UNCHANGED <<data, made, lock, ret>>
    /\ UNCHANGED <<built, recorded, x, forced, todo, disk, info, ops, anyForce, cur>>

\* the run-method returns and the Data object saves the value to disk
RunEnd(p) ==
    /\ stack[p] # <<>>
    /\ Top(p).pc = "running"
    /\ disk' = [disk EXCEPT ![FP(p, Top(p).task)] = Top(p).started]
    /\ stack' = [stack EXCEPT ![p] = SetTop(p, "saved", Top(p).started)]
    /\ UNCHANGED <<built, recorded, x, data, made, forced, todo, lock, info, runs, ops,
                   anyForce, cur, runLog, ret>>

\* variant: no run info is saved
FinishNoInfo(p) ==
    /\ stack[p] # <<>>
    /\ Top(p).pc = "saved"
    /\ LET t == Top(p).task
       IN /\ forced' = [forced EXCEPT ![p][t] = FALSE]
          /\ Return(p, t, [content |-> Top(p).started,
                           oid |-> made[p][t] + 1])
    /\ UNCHANGED <<built, recorded, x, todo, disk, info, ops, anyForce, cur>>

\* run info is saved after the value; the value stays in memory, the task
\* is no longer forced, the lock is released and the value returned
Finish(p) ==
    /\ stack[p] # <<>>
    /\ Top(p).pc = "saved"
    /\ LET t == Top(p).task
       IN /\ info' = [info EXCEPT ![FP(p, t)] = Top(p).started]
          /\ recorded' = [recorded EXCEPT ![FP(p, t)] =
                              InputFingerprints(t, x[p])]
          /\ forced' = [forced EXCEPT ![p][t] = FALSE]
          /\ Return(p, t, [content |-> Top(p).started,
                           oid |-> made[p][t] + 1])
    /\ UNCHANGED <<built, x, todo, disk, ops, anyForce, cur>>

\* variant: Chain.force marks the named tasks only
ForcedTasksNamesOnly(names) == names

\* the tasks Chain.force marks: the named tasks and all their dependents
ForcedTasks(names) ==
    names \cup UNION {DependentTasks(t) : t \in names}

\* variant: delete_data deletes the data of every task
DeletedAll(p, ts, a) == [f \in Fingerprints |-> 0]

\* Data.delete of every task in ts: the artifact and its run info
Deleted(p, ts, a) ==
    [f \in Fingerprints |->
        IF \E t \in ts : f = FP(p, t) THEN 0 ELSE a[f]]

\* variant: the forced tasks keep their value in memory
MarkKeepsValue(p, ts, delete) ==
    /\ forced' = [forced EXCEPT ![p] =
                     [t \in Tasks |-> IF t \in ts THEN TRUE ELSE @[t]]]
    /\ data' = data
    /\ disk' = IF delete THEN Deleted(p, ts, disk) ELSE disk
    /\ info' = IF delete THEN Deleted(p, ts, info) ELSE info
    /\ recorded' = [f \in Fingerprints |->
                      IF delete /\ Deleted(p, ts, info)[f] # info[f]
                      THEN <<>> ELSE recorded[f]]
    /\ ret' = [ret EXCEPT ![p] = NoValue]
    /\ runLog' = [runLog EXCEPT ![p] = <<>>]

\* marks the tasks ts of the chain of p as forced; their value in memory
\* is dropped and, with delete_data, their persisted data are deleted
Mark(p, ts, delete) ==
    /\ forced' = [forced EXCEPT ![p] =
                     [t \in Tasks |-> IF t \in ts THEN TRUE ELSE @[t]]]
    /\ data' = [data EXCEPT ![p] =
                   [t \in Tasks |-> IF t \in ts THEN NoValue ELSE @[t]]]
    /\ disk' = IF delete THEN Deleted(p, ts, disk) ELSE disk
    /\ info' = IF delete THEN Deleted(p, ts, info) ELSE info
    /\ recorded' = [f \in Fingerprints |->
                      IF delete /\ Deleted(p, ts, info)[f] # info[f]
                      THEN <<>> ELSE recorded[f]]
    /\ ret' = [ret EXCEPT ![p] = NoValue]
    /\ runLog' = [runLog EXCEPT ![p] = <<>>]

ForceOp(kind, names, ts, recompute, delete) ==
    [NoOp EXCEPT !.kind = kind, !.names = names, !.delete = delete,
                 !.recompute = recompute, !.marked = ts]

\* variant: task.force marks the dependents of the task as well
TaskForceDependents(p, t, delete) ==
    /\ Begin(p, ForceOp("task_force", {t}, {t}, FALSE, delete))
    /\ Mark(p, {t} \cup DependentTasks(t), delete)
    /\ UNCHANGED <<built, x, made, stack, todo, lock, runs>>

\* task.force(delete_data): only this task is marked
TaskForce(p, t, delete) ==
    /\ Begin(p, ForceOp("task_force", {t}, {t}, FALSE, delete))
    /\ Mark(p, {t}, delete)
    /\ UNCHANGED <<built, x, made, stack, todo, lock, runs>>

\* chain.force(names, recompute, delete_data)
ChainForce(p, names, recompute, delete) ==
    /\ Begin(p, ForceOp("chain_force", names, ForcedTasks(names),
                        recompute, delete))
    /\ Mark(p, ForcedTasks(names), delete)
    /\ todo' = [todo EXCEPT ![p] =
                   IF recompute THEN ForcedTasks(names) ELSE {}]
    /\ UNCHANGED <<built, x, made, stack, lock, runs>>

\* variant: recompute=True requests no value
RecomputeSkips(p, t) ==
    /\ stack[p] = <<>>
    /\ t \in todo[p]
    /\ todo' = [todo EXCEPT ![p] = @ \ {t}]
    /\ UNCHANGED <<built, recorded, x, data, made, forced, stack, lock, disk, info, runs, ops,
                   anyForce, cur, runLog, ret>>

\* recompute=True: the value of every forced task is requested
Recompute(p, t) ==
    /\ stack[p] = <<>>
    /\ t \in todo[p]
    /\ todo' = [todo EXCEPT ![p] = @ \ {t}]
    /\ stack' = [stack EXCEPT ![p] =
                   IF HasValue(p, t) THEN <<>> ELSE <<Frame(t, "lock", 0)>>]
    /\ UNCHANGED <<built, recorded, x, data, made, forced, lock, disk, info, runs, ops,
                   anyForce, cur, runLog, ret>>

\* variant: the chain created again keeps the forced marks
RebuildKeepsForced(p) ==
    /\ Begin(p, [NoOp EXCEPT !.kind = "rebuild"])
    /\ data' = [data EXCEPT ![p] = [t \in Tasks |-> NoValue]]
    /\ made' = [made EXCEPT ![p] = [t \in Tasks |-> 0]]
    /\ ret' = [ret EXCEPT ![p] = NoValue]
    /\ runLog' = [runLog EXCEPT ![p] = <<>>]
    /\ UNCHANGED <<built, recorded, x, forced, stack, todo, lock, disk, info, runs>>

\* variant: creating the chain again computes its first task
RebuildRuns(p) ==
    /\ Begin(p, [NoOp EXCEPT !.kind = "rebuild"])
    /\ data' = [data EXCEPT ![p] = [t \in Tasks |-> NoValue]]
    /\ made' = [made EXCEPT ![p] = [t \in Tasks |-> 0]]
    /\ forced' = [forced EXCEPT ![p] = [t \in Tasks |-> FALSE]]
    /\ ret' = [ret EXCEPT ![p] = NoValue]
    /\ runLog' = [runLog EXCEPT ![p] = <<"A">>]
    /\ runs' = [runs EXCEPT ![FP(p, "A")] = @ + 1]
    /\ UNCHANGED <<built, recorded, x, stack, todo, lock, disk, info>>

\* the chain is created again from its config: new task instances
Rebuild(p) ==
    /\ Begin(p, [NoOp EXCEPT !.kind = "rebuild"])
    /\ data' = [data EXCEPT ![p] = [t \in Tasks |-> NoValue]]
    /\ made' = [made EXCEPT ![p] = [t \in Tasks |-> 0]]
    /\ forced' = [forced EXCEPT ![p] = [t \in Tasks |-> FALSE]]
    /\ ret' = [ret EXCEPT ![p] = NoValue]
    /\ runLog' = [runLog EXCEPT ![p] = <<>>]
    /\ UNCHANGED <<built, recorded, x, stack, todo, lock, disk, info, runs>>

Names == {ns \in SUBSET Tasks : ns # {} /\ Cardinality(ns) <= MaxNames}

Next ==
    \/ \E p \in Procs, t \in Tasks : Value(p, t)
    \/ \E p \in Procs, t \in Tasks, d \in BOOLEAN : TaskForce(p, t, d)
    \/ \E p \in Procs, ns \in Names, r \in BOOLEAN, d \in BOOLEAN :
          ChainForce(p, ns, r, d)
    \/ \E p \in Procs, t \in Tasks : Recompute(p, t)
    \/ \E p \in Procs : Rebuild(p)
    \/ \E p \in Procs : Acquire(p)
    \/ \E p \in Procs : CheckLoad(p)
    \/ \E p \in Procs : RunEnd(p)
    \/ \E p \in Procs : Finish(p)

Spec == Init /\ [][Next]_vars

\* what a value request that failed hands to its caller
RunError == [content |-> -1, oid |-> 0]

TypeError == [content |-> -2, oid |-> 0]

\* variant: the error rolls the request back, the values and artifacts of
\* the tasks it had completed are dropped
AbortRollsBack(p, err) ==
    /\ stack[p] # <<>>
    /\ Top(p).pc = "running"
    /\ stack' = [stack EXCEPT ![p] = <<>>]
    /\ todo' = [todo EXCEPT ![p] = {}]
    /\ lock' = [f \in Fingerprints |->
                  IF lock[f] = p THEN NoProc ELSE lock[f]]
    /\ ret' = [ret EXCEPT ![p] = err]
    /\ data' = [data EXCEPT ![p] = [t \in Tasks |-> NoValue]]
    /\ disk' = [f \in Fingerprints |->
                  IF \E t \in Tasks : FP(p, t) = f /\ HasValue(p, t)
                  THEN 0 ELSE disk[f]]
    /\ UNCHANGED <<built, recorded, x, made, forced, info, runs, ops,
                   anyForce, cur, runLog>>

\* An error leaves the run of the innermost task: it propagates through
\* every value request that waits for it up to the caller; each of them
\* releases its lock, nothing is saved and nothing is kept in memory.
Abort(p, err) ==
    /\ stack[p] # <<>>
    /\ Top(p).pc = "running"
    /\ stack' = [stack EXCEPT ![p] = <<>>]
    /\ todo' = [todo EXCEPT ![p] = {}]
    /\ lock' = [f \in Fingerprints |->
                  IF lock[f] = p THEN NoProc ELSE lock[f]]
    /\ ret' = [ret EXCEPT ![p] = err]
    /\ UNCHANGED <<built, recorded, x, data, made, forced, disk, info, runs, ops, anyForce,
                   cur, runLog>>

\* variant: the exception leaves the locks held
RunRaisesKeepsLocks(p) ==
    /\ stack[p] # <<>>
    /\ Top(p).pc = "running"
    /\ stack' = [stack EXCEPT ![p] = <<>>]
    /\ todo' = [todo EXCEPT ![p] = {}]
    /\ ret' = [ret EXCEPT ![p] = RunError]
    /\ UNCHANGED <<built, recorded, x, data, made, forced, lock, disk, info, runs, ops,
                   anyForce, cur, runLog>>

\* the run-method raises an exception
RunRaises(p) == Abort(p, RunError)

\* variant: the value of the wrong type is saved like any other
RunReturnsWrongTypeSaved(p) ==
    /\ stack[p] # <<>>
    /\ Top(p).pc = "running"
    /\ disk' = [disk EXCEPT ![FP(p, Top(p).task)] = Top(p).started]
    /\ stack' = [stack EXCEPT ![p] = <<>>]
    /\ todo' = [todo EXCEPT ![p] = {}]
    /\ lock' = [f \in Fingerprints |->
                  IF lock[f] = p THEN NoProc ELSE lock[f]]
    /\ ret' = [ret EXCEPT ![p] = TypeError]
    /\ UNCHANGED <<built, recorded, x, data, made, forced, info, runs, ops, anyForce, cur,
                   runLog>>

\* the run-method returns a value that does not match the declared type:
\* the check of the returned value fails before anything is saved
RunReturnsWrongType(p) == Abort(p, TypeError)

NextRaise ==
    \/ Next
    \/ \E p \in Procs : RunRaises(p)
    \/ \E p \in Procs : RunReturnsWrongType(p)

SpecRaise == Init /\ [][NextRaise]_vars

\* The chains are created from any two configs over an empty artifact
\* root, and the values of their tasks are requested.
InitConfigs == \E xs \in [Procs -> Configs] : Start(xs, 0)

NextConfigs ==
    \/ \E p \in Procs, t \in Tasks : Value(p, t)
    \/ \E p \in Procs : Acquire(p)
    \/ \E p \in Procs : CheckLoad(p)
    \/ \E p \in Procs : RunEnd(p)
    \/ \E p \in Procs : Finish(p)

SpecConfigs == InitConfigs /\ [][NextConfigs]_vars

\* ------------------------------------------------------------ MultiChain

\* the member chains of a MultiChain, in the order of the configs passed
Members == <<"p1", "p2">>

\* variant: every member chain keeps its own task instances
OwnerOwn(c, t) == c

\* A MultiChain creates its chains so that identical tasks are one
\* instance: task t of member c is the instance of the first member
\* whose task t has the same fingerprint.
Owner(c, t) ==
    LET same == {i \in 1..Len(Members) : FP(Members[i], t) = FP(c, t)}
    IN Members[CHOOSE i \in same : \A j \in same : i <= j]

\* what the engine changes while it evaluates a value request
EngineState ==
    [data |-> data, made |-> made, disk |-> disk, info |-> info,
     recorded |-> recorded, forced |-> forced,
     runs |-> runs, log |-> <<>>]

RECURSIVE Evaluate(_, _, _)
RECURSIVE EvaluateInputs(_, _, _)

\* task.value of task t of member c, in a process where no other request
\* is in progress: the value in memory, else the loaded artifact, else the
\* values of the input tasks, the run-method, the saved value and run info
Evaluate(s, c, t) ==
    LET o == Owner(c, t)
        f == FP(c, t)
    IN IF s.data[o][t] # NoValue THEN s
       ELSE IF ~s.forced[o][t] /\ s.disk[f] # 0
       THEN [s EXCEPT !.data[o][t] = [content |-> s.disk[f],
                                      oid |-> s.made[o][t] + 1],
                      !.made[o][t] = @ + 1]
       ELSE LET s1 == EvaluateInputs(s, c, InputTasks(t))
                n == s1.runs[f] + 1
            IN [s1 EXCEPT !.runs[f] = n,
                          !.log = Append(@, t),
                          !.disk[f] = n,
                          !.info[f] = n,
                          !.recorded[f] = InputFingerprints(t, x[c]),
                          !.forced[o][t] = FALSE,
                          !.data[o][t] = [content |-> n,
                                          oid |-> s1.made[o][t] + 1],
                          !.made[o][t] = @ + 1]

\* the values of the input tasks ins are requested in declared order
EvaluateInputs(s, c, ins) ==
    IF ins = <<>> THEN s
    ELSE EvaluateInputs(Evaluate(s, c, Head(ins)), c, Tail(ins))

\* multichain[c].tasks[t].value
MultiValue(c, t) ==
    /\ \A d \in Procs : Idle(d)
    /\ Begin(c, [NoOp EXCEPT !.kind = "value", !.task = t])
    /\ LET s == Evaluate(EngineState, c, t)
       IN /\ data' = s.data
          /\ made' = s.made
          /\ disk' = s.disk
          /\ info' = s.info
          /\ recorded' = s.recorded
          /\ runs' = s.runs
          /\ runLog' = [runLog EXCEPT ![c] = s.log]
          /\ forced' = s.forced
          /\ ret' = [ret EXCEPT ![c] = s.data[Owner(c, t)][t]]
    /\ UNCHANGED <<built, x, stack, todo, lock>>

NextMulti == \E c \in Procs, t \in Tasks : MultiValue(c, t)

\* A MultiChain is created from any two configs over an empty artifact
\* root, and values are requested through its member chains.
SpecMulti == InitConfigs /\ [][NextMulti]_vars

\* a task instance: the member chain that created it and its task
TaskObject(c, t) == [chain |-> c, task |-> t]

\* the instance member c has for task t once identical tasks are merged
Merged(c, t) == TaskObject(Owner(c, t), t)

\* the task set of member c
MemberTasks(c) == {Merged(c, t) : t \in Tasks}

\* variant: an instance keeps the references to the input instances its
\* chain created, replaced or not
InputRefsCreated(i) ==
    {TaskObject(i.chain, u) : u \in Range(InputTasks(i.task))}

\* the input tasks of an instance are entries of the chain it was created
\* in, and these are the merged instances
InputRefs(i) == {Merged(i.chain, u) : u \in Range(InputTasks(i.task))}

\* multichain[c].tasks[t].force(): the mark is set on the instance member
\* c has for t, and the value it holds in memory is dropped
MultiForce(c, t) ==
    /\ \A d \in Procs : Idle(d)
    /\ Begin(c, ForceOp("task_force", {t}, {t}, FALSE, FALSE))
    /\ forced' = [forced EXCEPT ![Owner(c, t)][t] = TRUE]
    /\ data' = [data EXCEPT ![Owner(c, t)][t] = NoValue]
    /\ ret' = [ret EXCEPT ![c] = NoValue]
    /\ runLog' = [runLog EXCEPT ![c] = <<>>]
    /\ UNCHANGED <<built, recorded, x, made, stack, todo, lock, disk, info,
                   runs>>

NextMerge ==
    \/ \E c \in Procs, t \in Tasks : MultiValue(c, t)
    \/ \E c \in Procs, t \in Tasks : MultiForce(c, t)

\* A MultiChain is created from any two configs over an artifact root
\* that holds the artifacts an earlier session computed with the base
\* config.
InitMerge == \E xs \in [Procs -> Configs] : Start(xs, 1)

SpecMerge == InitMerge /\ [][NextMerge]_vars

\* ---------------------------------------------- construction of a chain

\* config.chain(): the chain is created from the declarations
CreateChain ==
    /\ chain = NoChain
    /\ chain' = Create(decl)
    /\ UNCHANGED <<decl, found, engine>>

\* the task instances of the chain
ChainTasks == {chain.tasks[n] : n \in DOMAIN chain.tasks}

\* variant: a lookup finds a task in whatever the reference matches
LookupAny(r) ==
    /\ chain.error = "none"
    /\ LET m == Matching(ChainTasks, r)
       IN found' = [ref |-> r,
                    task |-> IF m # {}
                             THEN FullName(CHOOSE i \in m : TRUE)
                             ELSE "KeyError"]
    /\ UNCHANGED <<decl, chain, engine>>

\* chain[r]: the task the reference matches, an error when it matches no
\* task or more than one
Lookup(r) ==
    /\ chain.error = "none"
    /\ LET m == Matching(ChainTasks, r)
       IN found' = [ref |-> r,
                    task |-> IF Cardinality(m) = 1
                             THEN FullName(CHOOSE i \in m : TRUE)
                             ELSE "KeyError"]
    /\ UNCHANGED <<decl, chain, engine>>

\* references used in lookups
LookupRefs == Refs \cup {Bare("C")}

NextBuild ==
    \/ CreateChain
    \/ \E r \in LookupRefs : Lookup(r)

\* Task classes and configs are declared, no chain is created yet.
InitBuild ==
    /\ Engine([p \in Procs |-> BaseConfig], 0)
    /\ decl \in Decls
    /\ chain = NoChain
    /\ found = NoFound

SpecBuild == InitBuild /\ [][NextBuild]_vars

\* ------------------------------------------------------ parameter binding

\* the configs a parameter is searched in; cfg0 owns the task
BoundConfigs == <<"cfg0", "cfg1", "cfg2", "cfg3">>

OwningConfig == BoundConfigs[1]

ConfigIndex(c) ==
    CHOOSE i \in 1..Len(BoundConfigs) : BoundConfigs[i] = c

\* lists of at most two different configs out of S
UsesLists(S) ==
    {<<>>} \cup {<<c>> : c \in S}
        \cup {s \in {<<c, e>> : c \in S, e \in S} : s[1] # s[2]}

\* `uses` lists without cycles: a config uses configs after it
UsesOf ==
    {u \in [Range(BoundConfigs) -> UsesLists(Range(BoundConfigs))] :
        \A c \in Range(BoundConfigs) : \A i \in 1..Len(u[c]) :
            ConfigIndex(u[c][i]) > ConfigIndex(c)}

\* the value a config gives the key when it defines it
ValueIn(c) == "value_of_" \o c

DefaultValue == "default"

\* Declarations of one parameter of a task of cfg0: its default, the
\* `uses` lists of the configs, and the configs that define its key.
BindDecls ==
    [parameter : {Parameter("key", dflt, FALSE, FALSE) :
                     dflt \in {NoDefault, DefaultValue}},
     uses : UsesOf,
     defined : SUBSET Range(BoundConfigs)]

RECURSIVE SearchDepthFirst(_, _, _)
RECURSIVE Search(_, _, _)

\* variant: the configs a config uses are searched before its siblings
SearchDepthFirst(d, queue, seen) ==
    IF queue = <<>> THEN NoDefault
    ELSE LET c == Head(queue)
             new == SelectSeq(d.uses[c], LAMBDA e : e \notin seen)
         IN IF c \in d.defined THEN ValueIn(c)
            ELSE SearchDepthFirst(d, new \o Tail(queue),
                                  seen \cup Range(new))

\* The key is searched in the configs of the queue, in order; the configs
\* a config uses are put at its end. NoDefault: no config defines it.
Search(d, queue, seen) ==
    IF queue = <<>> THEN NoDefault
    ELSE LET c == Head(queue)
             new == SelectSeq(d.uses[c], LAMBDA e : e \notin seen)
         IN IF c \in d.defined THEN ValueIn(c)
            ELSE Search(d, Tail(queue) \o new, seen \cup Range(new))

\* the value bound to the parameter: the value found, or the default; no
\* value found and no default is an error of the construction
Bind(d) ==
    LET v == Search(d, <<OwningConfig>>, {OwningConfig})
    IN IF v # NoDefault THEN [error |-> "none", parameters |-> v]
       ELSE IF d.parameter.default # NoDefault
       THEN [error |-> "none", parameters |-> d.parameter.default]
       ELSE [error |-> "parameter", parameters |-> NoDefault]

\* config.chain(): the parameter of the task is bound
BindParameter ==
    /\ chain = NoChain
    /\ chain' = Bind(decl)
    /\ UNCHANGED <<decl, found, engine>>

NextBind == BindParameter

\* Configs are declared, no chain is created yet.
InitBind ==
    /\ Engine([p \in Procs |-> BaseConfig], 0)
    /\ decl \in BindDecls
    /\ chain = NoChain
    /\ found = NoFound

SpecBind == InitBind /\ [][NextBind]_vars

\* ------------------------------------------------- interrupted computation

\* the tasks whose data are ContinuesData; the data of the others are
\* one file
Continues == {"A"}

\* During its run p writes part of the data of the task: a checkpoint of
\* a ContinuesData task, the beginning of the file of another task. The
\* data are not finished.
WritePartial(p) ==
    /\ stack[p] # <<>>
    /\ Top(p).pc = "running"
    /\ disk[FP(p, Top(p).task)] <= 0
    /\ disk[FP(p, Top(p).task)] # -Top(p).started
    /\ disk' = [disk EXCEPT ![FP(p, Top(p).task)] = -Top(p).started]
    /\ UNCHANGED <<built, recorded, x, data, made, forced, stack, todo,
                   lock, info, runs, ops, anyForce, cur, runLog, ret>>

\* The process of p is killed: its requests end, what it held in memory
\* is gone and its file locks are released; a new process takes its place.
Kill(p) ==
    /\ stack[p] # <<>>
    /\ stack' = [stack EXCEPT ![p] = <<>>]
    /\ todo' = [todo EXCEPT ![p] = {}]
    /\ lock' = [f \in Fingerprints |->
                  IF lock[f] = p THEN NoProc ELSE lock[f]]
    /\ data' = [data EXCEPT ![p] = [t \in Tasks |-> NoValue]]
    /\ made' = [made EXCEPT ![p] = [t \in Tasks |-> 0]]
    /\ forced' = [forced EXCEPT ![p] = [t \in Tasks |-> FALSE]]
    /\ ret' = [ret EXCEPT ![p] = NoValue]
    /\ UNCHANGED <<built, recorded, x, disk, info, runs, ops, anyForce,
                   cur, runLog>>

NextKill ==
    \/ \E p \in Procs, t \in Tasks : Value(p, t)
    \/ \E p \in Procs : Acquire(p)
    \/ \E p \in Procs : CheckLoad(p)
    \/ \E p \in Procs : RunEnd(p)
    \/ \E p \in Procs : Finish(p)
    \/ \E p \in Procs : WritePartial(p)
    \/ \E p \in Procs : Kill(p)
    \/ \E p \in Procs : RunRaises(p)

SpecKill == Init /\ [][NextKill]_vars

\* ---------------------------------------------------------------- progress

\* ---------------------------------------------- force on a computed chain

\* the tasks value(t) evaluates on a new chain over an empty directory
Evaluated(t) == {u \in Tasks : u = t \/ DependsOn(t, u)}

\* value(t) was answered over an empty artifact directory: t and the tasks
\* it depends on were run once, their artifacts and run infos are saved.
\* With mem the chain of p1 is the one that answered it and holds the
\* values in memory; otherwise it is a chain created afterwards.  Requests
\* are counted from this state; p2 issues none in this specification and
\* p1 has one request more than MaxOps.
Computed(t, mem) ==
    LET done(u) == u \in Evaluated(t)
        held(p, u) == mem /\ p = "p1" /\ done(u)
        first == [content |-> 1, oid |-> 1]
        ran(f) == \E u \in Evaluated(t) : f = Fingerprint(u, BaseConfig)
    IN /\ x = [p \in Procs |-> BaseConfig]
       /\ data = [p \in Procs |-> [u \in Tasks |->
                      IF held(p, u) THEN first ELSE NoValue]]
       /\ made = [p \in Procs |-> [u \in Tasks |->
                      IF held(p, u) THEN 1 ELSE 0]]
       /\ forced = [p \in Procs |-> [u \in Tasks |-> FALSE]]
       /\ stack = [p \in Procs |-> <<>>]
       /\ todo = [p \in Procs |-> {}]
       /\ lock = [f \in Fingerprints |-> NoProc]
       /\ runs = [f \in Fingerprints |-> IF ran(f) THEN 1 ELSE 0]
       /\ disk = runs
       /\ info = runs
       /\ recorded = [f \in Fingerprints |->
                        IF ran(f)
                        THEN InputFingerprints(
                                 CHOOSE u \in Tasks :
                                     f = Fingerprint(u, BaseConfig),
                                 BaseConfig)
                        ELSE <<>>]
       /\ ops = [p \in Procs |-> IF p = "p1" THEN 0 ELSE -1]
       /\ anyForce = FALSE
       /\ cur = [p \in Procs |->
                    IF mem /\ p = "p1"
                    THEN [op |-> [NoOp EXCEPT !.kind = "value", !.task = t],
                          after |-> NoOp]
                    ELSE [op |-> NoOp, after |-> NoPrev]]
       /\ runLog = [p \in Procs |->
                       IF mem /\ p = "p1"
                       THEN SelectSeq(<<"A", "B", "C">>, done)
                       ELSE <<>>]
       /\ ret = [p \in Procs |->
                    IF mem /\ p = "p1" THEN first ELSE NoValue]
       /\ decl = BaseDecl
       /\ chain = Create(BaseDecl)
       /\ found = NoFound

InitForce == \E t \in Tasks, mem \in BOOLEAN : Computed(t, mem)

\* the requests of the one chain that computed the values
NextForce ==
    \/ \E t \in Tasks : Value("p1", t)
    \/ \E t \in Tasks, d \in BOOLEAN : TaskForce("p1", t, d)
    \/ \E ns \in Names, r \in BOOLEAN, d \in BOOLEAN :
          ChainForce("p1", ns, r, d)
    \/ \E t \in Tasks : Recompute("p1", t)
    \/ Acquire("p1")
    \/ CheckLoad("p1")
    \/ RunEnd("p1")
    \/ Finish("p1")

SpecForce == InitForce /\ [][NextForce]_vars


\* Every run-method terminates and a process that is not waiting for a
\* lock goes on; a process that waits for a lock gets it once it stays
\* free.
Fairness ==
    \A p \in Procs :
        /\ WF_vars(Acquire(p))
        /\ WF_vars(CheckLoad(p))
        /\ WF_vars(RunEnd(p))
        /\ WF_vars(Finish(p))
        /\ WF_vars(\E t \in Tasks : Recompute(p, t))

SpecLive == Init /\ [][Next]_vars /\ Fairness

\* ------------------------------------------------------------------ claims

Frames(p) == Range(stack[p])

\* p has entered the task with fingerprint f and passed its lock
Inside(p, f) ==
    \E fr \in Frames(p) : FP(p, fr.task) = f /\ fr.pc # "lock"

\* the run-method of the task with fingerprint f is in progress in p
InRun(p, f) ==
    \E fr \in Frames(p) : FP(p, fr.task) = f /\ fr.pc = "running"

\* p has requested the value of the task with fingerprint f and has not
\* got its lock yet
Waiting(p, f) ==
    stack[p] # <<>> /\ Top(p).pc = "lock" /\ FP(p, Top(p).task) = f

ValueOp(t) == [NoOp EXCEPT !.kind = "value", !.task = t]

\* the value request of p for t has returned
Returned(p, t) ==
    stack[p] = <<>> /\ cur[p].op = ValueOp(t) /\ ret[p] # NoValue

\* in this step p issues request op
Requests(p, op) == ops'[p] = ops[p] + 1 /\ cur'[p].op = op

\* in this step p calls the run-method of t
RunStarts(p, t) == runLog'[p] = Append(runLog[p], t)

\* in this step p leaves position pc of task t, the innermost it entered
Leaves(p, t, pc) ==
    /\ stack[p] # <<>>
    /\ Top(p).task = t
    /\ Top(p).pc = pc
    /\ stack'[p] # stack[p]

\* C1: for every fingerprint f, two run-method invocations for f are never
\* in progress at the same time; a process is past the lock of f (loading
\* or computing its artifact) only while it holds the file lock of f, and
\* a process that requests the value while another holds the lock stays
\* where it is, and calls no run-method for f, until the lock is released.
C1_LockHeld ==
    \A f \in Fingerprints :
        /\ \A p \in Procs : Inside(p, f) <=> lock[f] = p
        /\ \A p, q \in Procs : InRun(p, f) /\ InRun(q, f) => p = q

C1_Waits ==
    \A f \in Fingerprints :
        /\ \A p \in Procs :
              Waiting(p, f) /\ lock[f] # NoProc
                  => stack'[p] = stack[p] /\ data'[p] = data[p]
        /\ runs'[f] # runs[f] => lock[f] # NoProc /\ lock'[f] = lock[f]
        /\ disk'[f] > disk[f] => lock[f] # NoProc /\ lock'[f] = lock[f]

C1_OneComputationPerFingerprint == [](C1_LockHeld) /\ [][C1_Waits]_vars

C1_Witness ==
    \E p, q \in Procs : \E f \in Fingerprints :
        p # q /\ lock[f] = p /\ InRun(p, f) /\ Waiting(q, f)

\* C2: with no force requested and no artifact of A on disk at the start,
\* the run-method of A is invoked at most once over all processes however
\* their value requests overlap; when the value requests of two processes
\* for A have returned it was invoked exactly once, not by both, and both
\* hold the content of that one run, which is the artifact on disk.
C2_RunOnceForTwoProcesses ==
    ~anyForce =>
        /\ \A f \in Fingerprints : runs[f] <= 1
        /\ \A t \in Tasks :
              Returned("p1", t) /\ Returned("p2", t) =>
                  /\ runs[FP("p1", t)] = 1
                  /\ ret["p1"].content = disk[FP("p1", t)]
                  /\ ret["p2"].content = disk[FP("p2", t)]
                  /\ ~(t \in Range(runLog["p1"]) /\ t \in Range(runLog["p2"]))

C2_Witness ==
    /\ Returned("p1", "A") /\ Returned("p2", "A")
    /\ runLog["p1"] = <<"A">> /\ runLog["p2"] = <<>>
    /\ ret["p1"].content = 1 /\ ret["p2"].content = 1
    /\ runs[FP("p1", "A")] = 1

\* C3: the run-method of T is called only when T has no value in memory
\* and T is forced or has no finished artifact; a value in memory is
\* returned without loading and without running; a task that is not
\* forced and has a finished artifact gets the content of the artifact and
\* its run-method is not called; otherwise the run-method is called, as
\* soon as the input values are there, and the value it produced is kept.
C3_Step ==
    \A p \in Procs, t \in Tasks :
        /\ RunStarts(p, t) =>
              ~HasValue(p, t) /\ (forced[p][t] \/ ~Exists(FP(p, t)))
        /\ Requests(p, ValueOp(t)) /\ HasValue(p, t) =>
              /\ ret'[p] = data[p][t]
              /\ stack'[p] = <<>>
              /\ made' = made /\ runs' = runs /\ disk' = disk
        /\ Leaves(p, t, "check") /\ ~forced[p][t] /\ Exists(FP(p, t)) =>
              /\ ~HasValue(p, t)
              /\ data'[p][t].content = disk[FP(p, t)]
              /\ ~RunStarts(p, t)
              /\ runs'[FP(p, t)] = runs[FP(p, t)]
        /\ Leaves(p, t, "check") /\ (forced[p][t] \/ ~Exists(FP(p, t))) =>
              /\ data'[p][t] = NoValue
              /\ (NextInput(t, data[p]) = "-" => RunStarts(p, t))
        /\ Leaves(p, t, "saved") =>
              data'[p][t].content = Top(p).started

C3_RunOnlyWhenNoValueAndNoArtifact == [][C3_Step]_vars

C3_Witness ==
    /\ cur["p1"].after = ValueOp("B")
    /\ Returned("p1", "B")
    /\ made["p1"]["B"] = 1
    /\ runLog["p1"] = <<>>
    /\ runs[FP("p1", "B")] = 1

\* C4: once value(T) has returned, a later value(T) on the same task
\* instance with no force in between returns the very same object, and
\* neither the run-method nor the load of T is called: no new object is
\* created and the request returns at once.
C4_Step ==
    \A p \in Procs, t \in Tasks :
        /\ Returned(p, t) /\ Requests(p, ValueOp(t)) =>
              ret'[p] = ret[p] /\ stack'[p] = <<>>
        /\ HasValue(p, t) /\ Requests(p, ValueOp(t)) =>
              /\ ret'[p].oid = data[p][t].oid
              /\ made'[p][t] = made[p][t]
              /\ runLog'[p] = <<>>
              /\ stack'[p] = <<>>

C4_Kept ==
    \A p \in Procs, t \in Tasks :
        /\ Returned(p, t) => data[p][t] = ret[p]
        /\ HasValue(p, t) => data[p][t].oid = made[p][t]

C4_SameObjectAgain == [](C4_Kept) /\ [][C4_Step]_vars

C4_Witness ==
    /\ cur["p2"].after = ValueOp("C")
    /\ Returned("p2", "C")
    /\ ret["p2"] = [content |-> 1, oid |-> 1]
    /\ runs[FP("p2", "C")] = 1
    /\ info[FP("p2", "C")] = 1

\* C5: a chain whose task has the fingerprint of an artifact another chain
\* computed and persisted gets the value by loading it: the load rewrites
\* neither the artifact nor its run info and calls no run-method for it,
\* and absent any force both chains hold the content of the one artifact.
C5_Step ==
    \A q \in Procs, t \in Tasks :
        Leaves(q, t, "check") /\ ~forced[q][t] /\ Exists(FP(q, t)) =>
            /\ disk' = disk
            /\ info' = info
            /\ runs'[FP(q, t)] = runs[FP(q, t)]
            /\ data'[q][t] = [content |-> disk[FP(q, t)],
                             oid |-> made[q][t] + 1]

C5_Loaded ==
    \A p, q \in Procs, t \in Tasks :
        p # q /\ FP(p, t) = FP(q, t) /\ ~anyForce
        /\ HasValue(p, t) /\ HasValue(q, t)
            => /\ data[p][t].content = data[q][t].content
               /\ data[q][t].content = disk[FP(q, t)]

C5_SecondChainLoads == [](C5_Loaded) /\ [][C5_Step]_vars

C5_Witness ==
    /\ Returned("p1", "C")
    /\ runLog["p1"] = <<"A", "B", "C">>
    /\ Returned("p2", "A")
    /\ runLog["p2"] = <<>>
    /\ data["p2"]["A"].content = disk[FP("p1", "A")]
    /\ info[FP("p1", "A")] = 1

\* in this step the value request of p for t returns
ValueReturns(p, t) ==
    /\ cur'[p].op = ValueOp(t)
    /\ stack'[p] = <<>>
    /\ ret'[p] # NoValue
    /\ stack[p] # <<>> \/ ops'[p] # ops[p]

\* the tasks t depends on, directly or not
Upstream(t) == {u \in Tasks : DependsOn(t, u)}

\* C6 as stated: whenever value(T) returns, every task T transitively
\* depends on has its artifact persisted, in every state of the artifact
\* directory.
C6_Original_Step ==
    \A p \in Procs, t \in Tasks :
        ValueReturns(p, t) =>
            \A u \in Upstream(t) : disk'[FP(p, u)] # 0

C6_Step ==
    \A p \in Procs, t \in Tasks :
        /\ RunStarts(p, t) =>
              \A i \in Range(InputTasks(t)) :
                  /\ data'[p][i] # NoValue
                  /\ data'[p][i].content \in 1..runs[FP(p, i)]
        /\ Leaves(p, t, "check") /\ ~forced[p][t] /\ Exists(FP(p, t)) =>
              \A u \in Upstream(t) :
                  /\ runs'[FP(p, u)] = runs[FP(p, u)]
                  /\ disk'[FP(p, u)] = disk[FP(p, u)]
                  /\ data'[p][u] = data[p][u]

C7_ForceThenValue ==
    \A p \in Procs :
        /\ /\ Idle(p)
           /\ cur[p].op.kind = "chain_force"
           /\ cur[p].op.names = {"A"}
           /\ ~cur[p].op.recompute
           => /\ cur[p].op.marked = {"A", "B", "C"}
              /\ \A t \in Tasks : forced[p][t] /\ ~HasValue(p, t)
        /\ /\ Returned(p, "C")
           /\ cur[p].after.kind = "chain_force"
           /\ cur[p].after.names = {"A"}
           /\ ~cur[p].after.recompute
           => /\ runLog[p] = <<"A", "B", "C">>
              /\ \A t \in Tasks : ~forced[p][t]

C7_Witness ==
    /\ Returned("p1", "C")
    /\ cur["p1"].after.kind = "chain_force"
    /\ cur["p1"].after.names = {"A"}
    /\ ~cur["p1"].after.delete
    /\ runLog["p1"] = <<"A", "B", "C">>
    /\ \A t \in Tasks : runs[FP("p1", t)] = 2 /\ disk[FP("p1", t)] = 2

\* in this step p issues a force request
Forces(p) == ops'[p] = ops[p] + 1 /\ cur'[p].op.kind \in ForceKinds

\* C8: a force request marks the task it is called on, or, on the chain,
\* the named tasks and all their dependents; without delete_data it leaves
\* every artifact as it is; with delete_data it removes the artifact of
\* every task it marks and of no other.  An artifact changes only by such
\* a removal or by a run that overwrites it.
C8_Step ==
    /\ \A p \in Procs :
          Forces(p) =>
              LET op == cur'[p].op
              IN /\ op.marked =
                       IF op.kind = "task_force" THEN op.names
                       ELSE op.names \cup
                            {d \in Tasks : \E n \in op.names : DependsOn(d, n)}
                 /\ \A t \in Tasks :
                       forced'[p][t] = (forced[p][t] \/ t \in op.marked)
                 /\ \A f \in Fingerprints :
                       disk'[f] =
                           IF op.delete /\ \E t \in op.marked : FP(p, t) = f
                           THEN 0 ELSE disk[f]
    /\ \A f \in Fingerprints :
          disk[f] # 0 /\ disk'[f] # disk[f] =>
              \/ /\ disk'[f] = 0
                 /\ \E p \in Procs : Forces(p) /\ cur'[p].op.delete
              \/ /\ disk'[f] > disk[f]
                 /\ \E p \in Procs, t \in Tasks :
                       Leaves(p, t, "running") /\ FP(p, t) = f

C8_ForceFrame == [][C8_Step]_vars

C8_Witness ==
    /\ Idle("p1")
    /\ cur["p1"].op.kind = "chain_force"
    /\ cur["p1"].op.names = {"B"}
    /\ cur["p1"].op.delete
    /\ cur["p2"].op.kind = "task_force"
    /\ ~cur["p2"].op.delete
    /\ disk[FP("p1", "A")] = 1
    /\ disk[FP("p1", "B")] = 0
    /\ disk[FP("p1", "C")] = 0

\* C9: when the value(T) requested right after a force with delete_data
\* that marked T returns, the chain has called the run-method of T again
\* and returns from that run: the run wrote the artifact, the run info
\* now on disk is the one of this run, and this run started after every
\* other run of T, so its run info is later than the one it replaces.
C9_Step ==
    \A p \in Procs, t \in Tasks :
        /\ cur[p].op = ValueOp(t)
        /\ cur[p].after.kind \in ForceKinds
        /\ cur[p].after.delete
        /\ t \in cur[p].after.marked
        /\ Len(stack[p]) = 1
        /\ stack'[p] = <<>>
        => /\ Top(p).task = t
           /\ Top(p).pc = "saved"
           /\ t \in Range(runLog[p])
           /\ Top(p).started = runs[FP(p, t)]
           /\ info'[FP(p, t)] = Top(p).started
           /\ info'[FP(p, t)] > info[FP(p, t)]
           /\ ret'[p].content = Top(p).started

\* the artifact a run has saved is the one on disk unless it was deleted
C9_Saved ==
    \A p \in Procs : \A fr \in Frames(p) :
        fr.pc = "saved" =>
            \/ disk[FP(p, fr.task)] = fr.started
            \/ disk[FP(p, fr.task)] = 0 /\ anyForce

C9_ForceDeleteThenValue == [](C9_Saved) /\ [][C9_Step]_vars

C9_Witness ==
    /\ Returned("p1", "A")
    /\ cur["p1"].after.kind = "task_force"
    /\ cur["p1"].after.delete
    /\ runLog["p1"] = <<"A">>
    /\ disk[FP("p1", "A")] = 2
    /\ info[FP("p1", "A")] = 2

\* position of task t in the sequence log (0: not in it)
Index(log, t) ==
    IF \E i \in 1..Len(log) : log[i] = t
    THEN CHOOSE i \in 1..Len(log) : log[i] = t
    ELSE 0

\* C10: when chain.force(names, recompute=True) has returned, the chain
\* has called the run-method of every task the force marked, once each,
\* inputs before their dependents; no marked task is still forced and
\* each has its value in memory.
C10_RecomputeDone ==
    \A p \in Procs :
        /\ Idle(p)
        /\ cur[p].op.kind = "chain_force"
        /\ cur[p].op.recompute
        => LET m == cur[p].op.marked
               log == runLog[p]
           IN /\ m # {}
              /\ \A t \in m :
                    /\ Cardinality({i \in 1..Len(log) : log[i] = t}) = 1
                    /\ ~forced[p][t]
                    /\ HasValue(p, t)
                    /\ \A u \in m :
                          DependsOn(u, t) => Index(log, t) < Index(log, u)

C10_Witness ==
    /\ Idle("p2")
    /\ cur["p2"].op.kind = "chain_force"
    /\ cur["p2"].op.names = {"A"}
    /\ cur["p2"].op.recompute
    /\ runLog["p2"] = <<"A", "B", "C">>
    /\ \A t \in Tasks : data["p2"][t].content = disk[FP("p2", t)]

\* C11: the forced mark belongs to the chain object force was called on:
\* a task becomes forced in a chain only by a force request of that chain
\* which marks it, a force request changes the marks of no other chain and
\* (without delete_data) nothing in the artifact directory, a chain that
\* is created again has no task forced, and a chain whose task is not
\* forced loads the existing artifact whatever is forced elsewhere.
C11_Step ==
    \A p \in Procs :
        /\ \A t \in Tasks :
              forced'[p][t] /\ ~forced[p][t] =>
                  Forces(p) /\ t \in cur'[p].op.marked
        /\ Forces(p) =>
              /\ \A q \in Procs \ {p} : forced'[q] = forced[q]
              /\ ~cur'[p].op.delete => disk' = disk /\ info' = info
        /\ Requests(p, [NoOp EXCEPT !.kind = "rebuild"]) =>
              /\ \A t \in Tasks : ~forced'[p][t]
              /\ disk' = disk /\ info' = info
        /\ \A t \in Tasks :
              Leaves(p, t, "check") /\ ~forced[p][t] /\ Exists(FP(p, t)) =>
                  /\ ~RunStarts(p, t)
                  /\ data'[p][t].content = disk[FP(p, t)]
                  /\ forced' = forced

C11_ForcedMarkIsChainLocal == [][C11_Step]_vars

C11_Witness ==
    /\ forced["p1"]["A"]
    /\ cur["p1"].op.kind = "chain_force"
    /\ Returned("p2", "A")
    /\ runLog["p2"] = <<>>
    /\ ~forced["p2"]["A"]
    /\ data["p2"]["A"].content = disk[FP("p1", "A")]

\* ------------------------------------------- run-methods that can fail

\* in this step the value request of p ends with error err
Fails(p, err) == stack[p] # <<>> /\ ret'[p] = err

\* the locks of p are released and all other locks are as they were
LocksReleased(p) ==
    \A f \in Fingerprints :
        lock'[f] = IF lock[f] = p THEN NoProc ELSE lock[f]

\* C12: when the run-method of T raises, the request of the chain ends
\* with the exception; the step writes no artifact and no run info, puts
\* no value of T in memory, and releases the lock of T and of every task
\* whose evaluation it aborts, so that no lock is held by a chain without
\* a request in progress and T can be run again.
C12_Step ==
    \A p \in Procs :
        Fails(p, RunError) =>
            /\ Top(p).pc = "running"
            /\ stack'[p] = <<>> /\ todo'[p] = {}
            /\ disk' = disk /\ info' = info
            /\ data' = data /\ ~HasValue(p, Top(p).task)
            /\ \A fr \in Frames(p) : lock[FP(p, fr.task)] = p
            /\ LocksReleased(p)

C12_NoLockLeft ==
    \A p \in Procs :
        stack[p] = <<>> => \A f \in Fingerprints : lock[f] # p

C12_RunRaises == [](C12_NoLockLeft) /\ [][C12_Step]_vars

C12_Witness ==
    /\ ret["p1"] = RunError
    /\ cur["p1"].op = ValueOp("B")
    /\ Returned("p2", "B")
    /\ runLog["p2"] = <<"B">>
    /\ runs[FP("p1", "B")] = 2
    /\ disk[FP("p1", "B")] = 2

\* C13: when the value the run-method of T returned does not match the
\* declared type, the request ends with an error in that step; no
\* artifact and no run info is written, so an artifact that was absent is
\* still absent, T has no value in memory and holds no lock, and the
\* value(T) requested next calls the run-method again.
C13_Step ==
    \A p \in Procs :
        Fails(p, TypeError) =>
            /\ Top(p).pc = "running"
            /\ stack'[p] = <<>> /\ todo'[p] = {}
            /\ disk' = disk /\ info' = info
            /\ data'[p][Top(p).task] = NoValue
            /\ forced' = forced
            /\ LocksReleased(p)

C13_NoArtifact ==
    \A f \in Fingerprints : disk[f] # 0 => info[f] # 0 \/ lock[f] # NoProc

C13_TypeMismatch == [](C13_NoArtifact) /\ [][C13_Step]_vars

C13_Witness ==
    /\ ret["p2"] = TypeError
    /\ cur["p2"].op = ValueOp("A")
    /\ disk[FP("p2", "A")] = 0
    /\ InRun("p1", FP("p1", "A"))
    /\ runs[FP("p1", "A")] = 2

\* ------------------------------------------------------------ fingerprints

\* the chains of p and q agree on every parameter of t that is not
\* declared ignore_persistence
SameRelevantValues(p, q, t) ==
    \A d \in Range(Declared(t)) :
        ~d.ignore_persistence => x[p][d.name] = x[q][d.name]

\* the chains of p and q agree on the fingerprints of the inputs of t
SameInputFingerprints(p, q, t) ==
    \A i \in Range(InputTasks(t)) : FP(p, i) = FP(q, i)

\* the configs c and d differ at most in parameters declared
\* ignore_persistence, in the namespace and in the name
SameButIgnored(c, d) == c.x = d.x /\ c.y = d.y

\* C14: two chains that agree on the values of the parameters of T not
\* declared ignore_persistence and on the fingerprints of the inputs of T
\* give T the same fingerprint and data path, whatever the ignored
\* parameters, the namespace and the name of the configs are; configs that
\* differ only in those give every task the same fingerprint.
C14_SameFingerprint ==
    /\ \A p, q \in Procs, t \in Tasks :
          SameRelevantValues(p, q, t) /\ SameInputFingerprints(p, q, t) =>
              /\ FP(p, t) = FP(q, t)
              /\ DataPath(t, x[p]) = DataPath(t, x[q])
    /\ \A t \in Tasks, d \in Configs :
          SameButIgnored(x["p1"], d) => Fingerprint(t, d) = FP("p1", t)

C14_Witness ==
    /\ x["p1"].verbose # x["p2"].verbose
    /\ x["p1"].namespace # x["p2"].namespace
    /\ x["p1"].name # x["p2"].name
    /\ FP("p1", "C") = FP("p2", "C")
    /\ Returned("p1", "C") /\ runLog["p1"] = <<"A", "B", "C">>
    /\ Returned("p2", "C") /\ runLog["p2"] = <<>>

\* the hash of task t were its class declared without parameter d
FingerprintWithout(t, d, cfg) ==
    <<t,
      ParametersOf(SelectSeq(Declared(t), LAMBDA e : e.name # d.name), cfg),
      [i \in 1..Len(InputTasks(t)) |-> Fingerprint(InputTasks(t)[i], cfg)]>>

\* C15: for a parameter declared with dont_persist_default_value, the
\* task has the fingerprint of the same class declared without the
\* parameter exactly when the value the config gives it is the default.
C15_DefaultNotPersisted ==
    \A p \in Procs, t \in Tasks :
        \A d \in Range(Declared(t)) :
            d.dont_persist_default_value /\ ~d.ignore_persistence =>
                (FP(p, t) = FingerprintWithout(t, d, x[p]))
                    = (x[p][d.name] = d.default)

C15_Witness ==
    /\ x["p1"].y = 0 /\ x["p2"].y = 1 /\ x["p1"].x = x["p2"].x
    /\ FP("p1", "B") = FingerprintWithout("B", Declared("B")[1], x["p2"])
    /\ FP("p2", "B") # FP("p1", "B")
    /\ Returned("p1", "B") /\ Returned("p2", "B")
    /\ disk[FP("p1", "B")] = 1 /\ disk[FP("p2", "B")] = 1
    /\ runLog["p2"] = <<"B">>

\* C16: two chains whose configs differ in the value of x, a parameter of
\* A used in persistence, give A and every task that depends on A
\* different fingerprints and data paths; a run that saves its value
\* writes the artifact of its own fingerprint and leaves every other
\* artifact as it is, so that the artifacts of both chains stay.
C16_Paths ==
    \A p, q \in Procs :
        x[p].x # x[q].x =>
            \A t \in {"A"} \cup DependentTasks("A") :
                /\ FP(p, t) # FP(q, t)
                /\ DataPath(t, x[p]) # DataPath(t, x[q])
                /\ disk[FP(p, t)] # 0 /\ HasValue(q, t) => disk[FP(q, t)] # 0

C16_Step ==
    \A f \in Fingerprints :
        disk'[f] # disk[f] =>
            \E p \in Procs, t \in Tasks :
                /\ Leaves(p, t, "running")
                /\ f = FP(p, t)
                /\ \A g \in Fingerprints \ {f} : disk'[g] = disk[g]

C16_DistinctArtifacts == [](C16_Paths) /\ [][C16_Step]_vars

C16_Witness ==
    /\ x["p1"].x = 5 /\ x["p2"].x = 7
    /\ Returned("p1", "A") /\ Returned("p2", "A")
    /\ runLog["p1"] = <<"A">> /\ runLog["p2"] = <<"A">>
    /\ disk[FP("p1", "A")] = 1 /\ disk[FP("p2", "A")] = 1
    /\ FP("p1", "A") # FP("p2", "A")

\* the value member c holds in memory for its task t
MemberValue(c, t) == data[Owner(c, t)][t]

\* C17: two task instances with equal fingerprints have the same data
\* path, and in a MultiChain that contains both they are one object: once
\* the value is in memory through one member chain, a request through
\* another member chain returns that same value, and no run-method is
\* invoked, no artifact is loaded and nothing is written.
C17_OneObject ==
    \A c, d \in Procs : \A t \in Tasks :
        FP(c, t) = FP(d, t) =>
            /\ DataPath(t, x[c]) = DataPath(t, x[d])
            /\ MemberValue(c, t) = MemberValue(d, t)

C17_Step ==
    \A c, d \in Procs : \A t \in Tasks :
        /\ c # d
        /\ FP(c, t) = FP(d, t)
        /\ data[Owner(d, t)][t] # NoValue
        /\ Requests(c, ValueOp(t))
        => /\ ret'[c] = data[Owner(d, t)][t]
           /\ runLog'[c] = <<>>
           /\ UNCHANGED <<data, made, runs, disk, info>>

C17_SharedInMultiChain == [](C17_OneObject) /\ [][C17_Step]_vars

C17_Witness ==
    /\ x["p1"].y # x["p2"].y
    /\ x["p1"].x = x["p2"].x
    /\ cur["p1"].op = ValueOp("C")
    /\ runLog["p1"] = <<"A", "B", "C">>
    /\ cur["p2"].op = ValueOp("A")
    /\ cur["p2"].after = NoOp
    /\ runLog["p2"] = <<>>
    /\ ret["p2"] = data["p1"]["A"]
    /\ ret["p2"] # NoValue
    /\ made["p1"]["A"] = 1 /\ made["p2"]["A"] = 0
    /\ runs[FP("p2", "A")] = 1

\* the chain was created
Constructed == chain.error = "none"

\* the construction of the chain was attempted
Attempted == chain # NoChain

TaskNames == DOMAIN chain.tasks

RECURSIVE Upto(_, _)

\* the tasks reached from the tasks S along the edges
Upto(S, edges) ==
    LET T == S \cup UNION {edges[n] : n \in S}
    IN IF T = S THEN S ELSE Upto(T, edges)

\* the input-task references as declared: task i refers to task j
Refers(i, j) ==
    \E r \in decl.input_tasks[i.name] :
        j \in InputMatching(Instances(decl), i, r)

DeclaredEdges ==
    [i \in Instances(decl) |-> {j \in Instances(decl) : Refers(i, j)}]

\* the declared references form a cycle
DeclaredCycle ==
    \E i \in Instances(decl) : i \in Upto(DeclaredEdges[i], DeclaredEdges)

\* C18: in every chain that is constructed, each declared input-task
\* reference of each task is resolved to a task of the chain and no task
\* is reached from itself along the input tasks; when the declared
\* references form a cycle, the construction ends in an error and there
\* is no chain.
C18_AcyclicOrError ==
    /\ Constructed =>
          \A n \in TaskNames :
              /\ chain.input_tasks[n] \subseteq TaskNames
              /\ \A r \in decl.input_tasks[chain.tasks[n].name] :
                    \E m \in chain.input_tasks[n] :
                        chain.tasks[m].name = r.name
              /\ n \notin Upto(chain.input_tasks[n], chain.input_tasks)
    /\ Attempted /\ DeclaredCycle =>
          chain.error # "none" /\ chain.tasks = <<>>

C18_Witness ==
    /\ decl.input_tasks["A"] = {Bare("B")}
    /\ decl.input_tasks["B"] = {Bare("A")}
    /\ decl.uses = {"train"}
    /\ \A i \in Instances(decl) : i.namespace = "train"
    /\ Cardinality(Instances(decl)) = 2
    /\ DeclaredCycle
    /\ chain = Failed("cycle")

\* the tasks of the chain that pair task class c with config cfg in
\* namespace ns
InstancesOf(c, cfg, ns) ==
    {n \in TaskNames :
        /\ chain.tasks[n].name = c
        /\ chain.tasks[n].config = cfg
        /\ chain.tasks[n].namespace = ns}

\* config cfg in namespace ns is a config of the chain
IsConfig(cfg, ns) ==
    \/ cfg = "root" /\ ns = ""
    \/ cfg = "foo" /\ ns \in decl.uses

\* task class c is selected by config cfg, not excluded and not abstract
IsSelected(c, cfg) ==
    /\ c \in decl.tasks[cfg]
    /\ c \notin decl.excluded_tasks[cfg]
    /\ c \notin decl.abstract

\* C19: in every constructed chain there is exactly one task instance for
\* each selected, non-excluded, non-abstract task class of each config of
\* the chain and none for any other pair, no two task instances have the
\* same full name, and a config used under two namespaces gives two
\* distinct instances of each of its tasks.
C19_OneInstancePerClassAndConfig ==
    Constructed =>
        /\ \A c \in Tasks, cfg \in ConfigNames, ns \in Namespaces :
              Cardinality(InstancesOf(c, cfg, ns)) =
                  IF IsConfig(cfg, ns) /\ IsSelected(c, cfg) THEN 1 ELSE 0
        /\ \A n \in TaskNames : FullName(chain.tasks[n]) = n
        /\ \A n, m \in TaskNames :
              n # m => /\ chain.tasks[n] # chain.tasks[m]
                       /\ FullName(chain.tasks[n]) # FullName(chain.tasks[m])
        /\ \A c \in Tasks : \A ns1, ns2 \in decl.uses :
              ns1 # ns2 /\ IsSelected(c, "foo") =>
                  \E n \in InstancesOf(c, "foo", ns1) :
                      \E m \in InstancesOf(c, "foo", ns2) :
                          n # m /\ chain.tasks[n] # chain.tasks[m]

C19_Witness ==
    /\ Constructed
    /\ decl.uses = {"train", "test"}
    /\ decl.tasks["foo"] = {"A", "B"}
    /\ decl.tasks["root"] = {"A", "B"}
    /\ decl.excluded_tasks["root"] = {"B"}
    /\ decl.abstract = {}
    /\ TaskNames = {"A", "train::A", "train::group:B", "test::A",
                    "test::group:B"}
    /\ chain.tasks["train::A"] # chain.tasks["test::A"]

\* the tasks of the chain with name nm
Named(nm) == {n \in TaskNames : chain.tasks[n].name = nm}

\* the tasks of the chain with name nm in the namespace of task n, or in
\* any namespace when n is in none
NamedFor(n, nm) ==
    {m \in Named(nm) :
        \/ chain.tasks[n].namespace = ""
        \/ chain.tasks[m].namespace = chain.tasks[n].namespace}

\* the bare names declared as input tasks of task class c
BareInputs(c) == {r.name : r \in {q \in decl.input_tasks[c] : IsBare(q)}}

\* the last lookup was by bare name
BareLookup == found # NoFound /\ IsBare(found.ref)

\* a bare name declared as input task of a declared task instance does
\* not have exactly one task instance of that name
SomeNameNotUnique ==
    \E i \in Instances(decl) : \E nm \in BareInputs(i.name) :
        Cardinality({j \in Instances(decl) : j.name = nm}) # 1

\* a bare name declared as input task of a declared task instance does
\* not have exactly one task instance of that name where it is searched
SomeNameNotUniqueInScope ==
    \E i \in Instances(decl) : \E nm \in BareInputs(i.name) :
        Cardinality({j \in Scope(Instances(decl), i) : j.name = nm}) # 1

RefsOf(n) == decl.input_tasks[chain.tasks[n].name]

\* config foo is used twice, as train and as test
UsedTwice == {"train", "test"} \subseteq decl.uses

RECURSIVE Level(_)

\* the configs k `uses` steps away from the owning config, and no fewer
Level(k) ==
    IF k = 0 THEN {OwningConfig}
    ELSE LET before == UNION {Level(j) : j \in 0..(k - 1)}
         IN UNION {Range(decl.uses[c]) : c \in Level(k - 1)} \ before

Levels == 0..(Len(BoundConfigs) - 1)

\* the configs reachable from the owning config that define the key
Defining == {c \in UNION {Level(k) : k \in Levels} : c \in decl.defined}

\* the nearest of them
Nearest ==
    {c \in Defining :
        \E k \in Levels :
            /\ c \in Level(k)
            /\ \A j \in 0..(k - 1) : Level(j) \cap Defining = {}}

\* the parameter has been bound, or the binding has failed
BindingDone == chain # NoChain /\ decl \in BindDecls

\* C22: the value bound to a parameter is the value of a nearest config
\* that defines the key (the owning config first, then the configs
\* reachable through `uses`, fewest steps first); when no reachable
\* config defines it the default is bound, and when there is no default
\* the construction fails.
C22_NearestConfigWins ==
    BindingDone =>
        /\ Defining # {} =>
              /\ chain.error = "none"
              /\ \E c \in Nearest : chain.parameters = ValueIn(c)
        /\ Defining = {} /\ decl.parameter.default # NoDefault =>
              chain.error = "none"
                  /\ chain.parameters = decl.parameter.default
        /\ Defining = {} /\ decl.parameter.default = NoDefault =>
              chain.error = "parameter"

C22_Witness ==
    /\ BindingDone
    /\ decl.uses["cfg0"] = <<"cfg1", "cfg2">>
    /\ decl.uses["cfg1"] = <<"cfg3">>
    /\ decl.defined = {"cfg2", "cfg3"}
    /\ chain.error = "none"
    /\ chain.parameters = ValueIn("cfg2")

\* the run info of p's task t records the fingerprints its input tasks have
RecordsInputs(p, t) ==
    /\ Len(recorded[FP(p, t)]) = Len(InputTasks(t))
    /\ \A i \in 1..Len(InputTasks(t)) :
          recorded[FP(p, t)][i] = FP(p, InputTasks(t)[i])

\* C23 as stated: a run info never exists without its artifact, and an
\* evaluation that ends leaves the artifact together with its run info.
C23_Original_Inv ==
    \A p \in Procs : \A t \in Tasks :
        info[FP(p, t)] # 0 => disk[FP(p, t)] # 0 /\ RecordsInputs(p, t)

C23_Original_Step ==
    \A p \in Procs : \A t \in Tasks :
        Leaves(p, t, "saved") =>
            /\ disk'[FP(p, t)] = Top(p).started
            /\ info'[FP(p, t)] = disk'[FP(p, t)]

C23_InfoOfArtifact ==
    \A p \in Procs : \A t \in Tasks :
        info[FP(p, t)] # 0 =>
            /\ RecordsInputs(p, t)
            /\ disk[FP(p, t)] = 0 => anyForce

C23_Step ==
    /\ \A p \in Procs : \A t \in Tasks :
          Leaves(p, t, "saved") =>
              /\ info'[FP(p, t)] = Top(p).started
              /\ DataPath(t, x[p]) = <<"tasks_data", t, FP(p, t)>>
              /\ disk'[FP(p, t)] = disk[FP(p, t)]
              /\ disk[FP(p, t)] \in {0, Top(p).started}
              /\ recorded'[FP(p, t)] =
                    [i \in 1..Len(InputTasks(t)) |->
                        FP(p, InputTasks(t)[i])]
    /\ \A f \in Fingerprints :
          /\ info'[f] # info[f] /\ info'[f] # 0 =>
                \E p \in Procs : \E t \in Tasks :
                    /\ f = FP(p, t)
                    /\ Leaves(p, t, "saved")
                    /\ Top(p).started = info'[f]
          /\ disk'[f] = 0 /\ disk[f] # 0 =>
                /\ info'[f] = 0
                /\ \E p \in Procs : Forces(p) /\ cur'[p].op.delete

Held(p) == {fr.task : fr \in {g \in Frames(p) : g.pc # "lock"}}

\* p waits for a lock that q holds
WaitsFor(p, q) ==
    stack[p] # <<>> /\ Top(p).pc = "lock" /\ lock[FP(p, Top(p).task)] = q

\* p can take a step of the request it is in
CanStep(p) ==
    \/ stack[p] # <<>> /\ ~(\E q \in Procs : WaitsFor(p, q))
    \/ stack[p] = <<>> /\ todo[p] # {}

\* C24: a process that waits for a lock holds only locks of tasks that
\* transitively depend on the task it waits for, no two processes wait
\* for each other, while a request is in progress some process can take a
\* step, and, the run-methods terminating, every request returns.
C24_LockOrder ==
    /\ \A p \in Procs :
          stack[p] # <<>> /\ Top(p).pc = "lock" =>
              \A t \in Held(p) : Top(p).task \in Upstream(t)
    /\ \A p, q \in Procs : ~(WaitsFor(p, q) /\ WaitsFor(q, p))
    /\ (\E p \in Procs : ~Idle(p)) => \E p \in Procs : CanStep(p)

C24_NoDeadlock ==
    /\ [](C24_LockOrder)
    /\ \A p \in Procs : ~Idle(p) ~> Idle(p)

C24_Witness ==
    /\ WaitsFor("p1", "p2")
    /\ Top("p1").task = "A"
    /\ Held("p1") = {"B", "C"}
    /\ InRun("p2", FP("p2", "A"))
    /\ lock[FP("p1", "C")] = "p1"

\* the tasks a request may compute: those it names and their inputs
Demanded(op) ==
    IF op.kind = "value" THEN {op.task} \cup Upstream(op.task)
    ELSE IF op.kind = "chain_force" /\ op.recompute
    THEN op.marked \cup UNION {Upstream(t) : t \in op.marked}
    ELSE {}

\* C25: a run-method is invoked only by a process that is in a value
\* request for the task or for a task depending on it, or in a chain
\* force with recompute; the number of invocations changes in no other
\* step: not when a chain is created again, and not in a force request.
C25_Step ==
    /\ \A p \in Procs : \A t \in Tasks :
          RunStarts(p, t) =>
              /\ t \in Demanded(cur'[p].op)
              /\ cur'[p] = cur[p]
              /\ runs'[FP(p, t)] = runs[FP(p, t)] + 1
    /\ \A f \in Fingerprints :
          runs'[f] # runs[f] =>
              \E p \in Procs : \E t \in Tasks :
                  f = FP(p, t) /\ RunStarts(p, t)
    /\ \A p \in Procs :
          Forces(p) \/ Requests(p, [NoOp EXCEPT !.kind = "rebuild"]) =>
              /\ runs' = runs
              /\ \A q \in Procs : \A t \in Tasks : ~RunStarts(q, t)
              /\ stack' = stack

C25_DemandDriven == [][C25_Step]_vars

C25_Witness ==
    /\ cur["p1"].op.kind = "chain_force"
    /\ ~cur["p1"].op.recompute
    /\ cur["p1"].op.marked = {"A", "B", "C"}
    /\ cur["p2"].op.kind = "rebuild"
    /\ \A f \in Fingerprints : runs[f] = 0
    /\ \A p \in Procs : Idle(p) /\ runLog[p] = <<>>

\* the data of fingerprint f are unfinished: part of them was written
Unfinished(f) == disk[f] < 0

\* in this step the request of p ends without a value: killed, or raised
Dies(p) == stack[p] # <<>> /\ stack'[p] = <<>> /\ ret'[p].content <= 0

\* C26: data left unfinished by a computation that was killed or raised
\* are never loaded as the value of the task: a value in memory is the
\* finished artifact of a run; a task that finds no finished artifact
\* under its lock is not loaded but computed, the run-method of a
\* ContinuesData task starting with the checkpoints still in place; and a
\* process that is killed or whose run-method raises leaves the data in
\* the artifact directory as they are.
C26_FinishedValues ==
    \A p \in Procs : \A t \in Tasks :
        HasValue(p, t) => data[p][t].content > 0

C26_Step ==
    \A p \in Procs :
        /\ \A t \in Tasks :
              /\ Leaves(p, t, "check") /\ ~forced[p][t] /\ ~Dies(p) =>
                    IF disk[FP(p, t)] > 0
                    THEN data'[p][t].content = disk[FP(p, t)]
                    ELSE /\ ~HasValue(p, t)'
                         /\ Len(stack'[p]) >= Len(stack[p])
                         /\ InputTasks(t) = <<>> => RunStarts(p, t)
              /\ RunStarts(p, t) /\ t \in Continues =>
                    disk'[FP(p, t)] = disk[FP(p, t)]
        /\ Dies(p) => disk' = disk /\ info' = info

C26_UnfinishedNeverLoaded == [](C26_FinishedValues) /\ [][C26_Step]_vars

C26_Witness ==
    /\ cur["p1"].op = ValueOp("A")
    /\ stack["p1"] = <<>>
    /\ ret["p1"] = NoValue
    /\ Unfinished(FP("p1", "A"))
    /\ disk[FP("p1", "A")] = -1
    /\ cur["p2"].op = ValueOp("A")
    /\ stack["p2"] = <<Frame("A", "running", 2)>>
    /\ runLog["p2"] = <<"A">>

\* the request of p in progress, or just ended, repeats its previous one
Retry(p) == cur[p].op.kind = "value" /\ cur[p].after = cur[p].op

\* the artifacts, run infos and cached values are as they were
InputsKept ==
    /\ data' = data /\ made' = made
    /\ disk' = disk /\ info' = info
    /\ forced' = forced /\ runs' = runs

\* without a force, no run-method is called for an artifact that exists:
\* the last call for a fingerprint is the one that wrote its artifact
C27_PersistedOnce ==
    ~anyForce => \A f \in Fingerprints : disk[f] > 0 => runs[f] = disk[f]

C27_Step ==
    \A p \in Procs :
        /\ Fails(p, RunError) => InputsKept
        /\ \A t \in Tasks :
              RunStarts(p, t) =>
                  /\ ~HasValue(p, t)
                  /\ ~Exists(FP(p, t)) \/ forced[p][t]

\* C27: when the run-method of T raises during value(C), the artifacts and
\* the cached values of the inputs computed earlier in the request stay as
\* they are; a retry of value(C) calls no run-method of a task whose value
\* is cached or whose artifact exists, only those of T and of the tasks
\* that had not completed.
C27_RetryKeepsInputs == [](C27_PersistedOnce) /\ [][C27_Step]_vars

C27_Witness ==
    /\ Retry("p1")
    /\ Returned("p1", "C")
    /\ runLog["p1"] = <<"B", "C">>
    /\ runs[FP("p1", "A")] = 1 /\ disk[FP("p1", "A")] = 1
    /\ data["p1"]["A"].content = 1
    /\ runs[FP("p1", "B")] = 2 /\ disk[FP("p1", "B")] = 2

\* the request before the value request of p was a force that marked t
\* and computed nothing
AfterForce(p, t) ==
    /\ cur[p].op = ValueOp(t)
    /\ cur[p].after.kind \in ForceKinds
    /\ t \in cur[p].after.marked
    /\ ~cur[p].after.recompute

\* a forced task has no value in memory, so no value request on it is
\* answered from memory; the value request after the force returns the
\* value of a run-method call of that request, and the mark is gone
C28_ForcedNotCached ==
    \A p \in Procs, t \in Tasks :
        /\ forced[p][t] => ~HasValue(p, t)
        /\ Returned(p, t) /\ AfterForce(p, t) =>
              /\ \E i \in 1..Len(runLog[p]) : runLog[p][i] = t
              /\ ret[p] = data[p][t]
              /\ ret[p].content = runs[FP(p, t)]
              /\ ~forced[p][t]
        /\ Returned(p, t) /\ Retry(p) =>
              /\ runLog[p] = <<>>
              /\ ret[p] = data[p][t]
              /\ ~forced[p][t]

C28_Step ==
    \A p \in Procs, t \in Tasks :
        /\ Forces(p) /\ t \in cur'[p].op.marked =>
              forced'[p][t] /\ data'[p][t] = NoValue
        /\ Requests(p, ValueOp(t)) /\ forced[p][t] =>
              stack'[p] = <<Frame(t, "lock", 0)>> /\ ret'[p] = NoValue
        /\ Requests(p, ValueOp(t)) /\ HasValue(p, t) =>
              /\ ret'[p] = data[p][t]
              /\ stack'[p] = <<>> /\ runs' = runs /\ data' = data
        /\ Leaves(p, t, "check") /\ forced[p][t] => data'[p][t] = NoValue
        /\ Leaves(p, t, "saved") =>
              /\ ~forced'[p][t]
              /\ data'[p][t].content = runs[FP(p, t)]

\* C28: force takes effect on a task whose value is in memory: after force
\* on T, or a chain force that marks T, value(T) calls the run-method of T
\* again and does not return the value cached before; after that run T is
\* not forced and value(T) returns the new cached value without running.
C28_ForceOnCached == [](C28_ForcedNotCached) /\ [][C28_Step]_vars

C28_Witness ==
    /\ Returned("p1", "B")
    /\ Retry("p1")
    /\ ops["p1"] = 3
    /\ anyForce
    /\ made["p1"]["B"] = 2
    /\ runs[FP("p1", "B")] = 2
    /\ runLog["p1"] = <<>>
    /\ ret["p1"].content = 2
    /\ ~forced["p1"]["B"]

\* task u of the chain of p is as it was: mark, value in memory, artifact
Untouched(p, u) ==
    /\ forced'[p][u] = forced[p][u]
    /\ data'[p][u] = data[p][u]
    /\ disk'[FP(p, u)] = disk[FP(p, u)]
    /\ info'[FP(p, u)] = info[FP(p, u)]

C29_Step ==
    \A p \in Procs :
        /\ Forces(p) /\ cur'[p].op.kind = "task_force" =>
              \A u \in Tasks :
                  IF u \in cur'[p].op.names
                  THEN forced'[p][u]
                  ELSE Untouched(p, u)
        /\ Forces(p) /\ cur'[p].op.kind = "chain_force" =>
              \A u \in Tasks :
                  IF \E n \in cur'[p].op.names : u = n \/ DependsOn(u, n)
                  THEN forced'[p][u]
                  ELSE Untouched(p, u)
        /\ \A d \in Tasks :
              ~forced[p][d] /\ (HasValue(p, d) \/ Exists(FP(p, d))) =>
                  /\ ~RunStarts(p, d)
                  /\ Requests(p, ValueOp(d)) /\ HasValue(p, d) =>
                        ret'[p] = data[p][d]
                  /\ Leaves(p, d, "check") =>
                        data'[p][d].content = disk[FP(p, d)]

\* after a force as the first request, only the tasks it marked are forced
C29_ForcedBelowNamed ==
    \A p \in Procs, u \in Tasks :
        forced[p][u] /\ cur[p].op.kind \in ForceKinds /\ ops[p] = 1 =>
            u \in cur[p].op.marked

\* C29: force on a task instance marks that task only, no input task and
\* no dependent of it; a dependent that is not forced and has a value in
\* memory or an artifact is returned or loaded without its run-method,
\* also after the forced task was recomputed; a chain force marks the
\* named tasks and their dependents and no task upstream of them.
C29_TaskForceMarksOne == [](C29_ForcedBelowNamed) /\ [][C29_Step]_vars

C29_Witness ==
    /\ Returned("p1", "B")
    /\ cur["p1"].after = ValueOp("A")
    /\ ops["p1"] = 3
    /\ anyForce
    /\ runLog["p1"] = <<>>
    /\ made["p1"] = [t \in Tasks |-> IF t = "C" THEN 0 ELSE 1]
    /\ runs[FP("p1", "A")] = 2 /\ data["p1"]["A"].content = 2
    /\ runs[FP("p1", "B")] = 1 /\ ret["p1"].content = 1

\* the run-methods the request of c calls in this step
Ran(c) == Range(runLog'[c])

\* every input reference of every task of every member is an instance of
\* a member's task set, and it is the instance the member itself has for
\* that input task
C30_RefsInMembers ==
    \A c \in Procs, t \in Tasks :
        /\ InputRefs(Merged(c, t)) \subseteq UNION {MemberTasks(d) : d \in Procs}
        /\ InputRefs(Merged(c, t)) =
               {Merged(c, u) : u \in Range(InputTasks(t))}

C30_Step ==
    \A c, d \in Procs, t \in Tasks :
        /\ Forces(c) /\ t \in cur'[c].op.marked /\ FP(d, t) = FP(c, t) =>
              /\ forced'[Merged(d, t).chain][t]
              /\ data'[Merged(d, t).chain][t] = NoValue
        /\ \A u \in Tasks :
              /\ Requests(d, ValueOp(u))
              /\ u \in Ran(d)
              /\ TaskObject(c, t) \in InputRefs(Merged(d, u))
              => /\ forced[c][t] => t \in Ran(d) /\ ~forced'[c][t]
                 /\ data[c][t] # NoValue =>
                        t \notin Ran(d) /\ data'[c][t] = data[c][t]
                 /\ data'[c][t] # NoValue

====
